---- MODULE Spec2Model ----
(***************************************************************************)
(* Model of src/main.py: the persona-driven relevance pipeline.            *)
(*                                                                         *)
(* A Python string is a sequence of one-character strings, a list is a     *)
(* sequence, a dict is a record of its key set and its values.  A          *)
(* similarity score is an integer in units of 10^-5.                       *)
(***************************************************************************)
EXTENDS Integers, Sequences, FiniteSets, TLC

VARIABLES
    \* ---- chunk_text, called on its own -------------------------------
    text,           \* the argument text
    chunk_size,     \* the argument chunk_size
    chunked,        \* the list chunk_text returned
    cpc,            \* "idle" | "ready" | "done"
    \* ---- get_relevant_chunks, called on its own -----------------------
    rchunks,        \* the argument chunks
    rsims,          \* the cosine similarity of each chunk to the query
    top_k,          \* the argument top_k
    ranked,         \* the list get_relevant_chunks returned
    rpc,            \* "idle" | "ready" | "done"
    \* ---- main / process_collection ------------------------------------
    listing,        \* what base_dir.glob("Collection*/") yields, sorted
    pos,            \* number of listing entries main has taken
    pc,             \* position in main / process_collection
    config,         \* json.load(f) of the current collection
    documents,      \* the resolved document list
    persona_embedding, \* the query embedding, as the score it gives a chunk
    output,         \* the output dict being filled
    doc_i,          \* index (1-based) of the document the loop is at
    pages,          \* all_page_blocks of the document being read
    page_i,         \* number of pages of that document already handled
    files,          \* collection -> what challenge1b_output.json holds
    console,        \* what was printed
    clock,          \* datetime.now()
    \* ---- history (not program state) ----------------------------------
    runs,           \* collection -> what its process_collection call did
    emitted         \* per output row: where it came from

pureVars == <<text, chunk_size, chunked, cpc, rchunks, rsims, top_k, ranked, rpc>>
mainVars == <<listing, pos, pc, config, documents, persona_embedding, output,
              doc_i, pages, page_i, files, console, clock, runs, emitted>>
vars == <<pureVars, mainVars>>

-----------------------------------------------------------------------------
(* Python built-ins                                                        *)

Min(a, b) == IF a < b THEN a ELSE b

\* str.isspace() for the characters the model uses
Whitespace == {" ", "\n", "\t"}

\* seq[a:b] with 0 <= a, 0 <= b (0-based, end exclusive, clipped)
Slice(s, a, b) == SubSeq(s, a + 1, Min(b, Len(s)))

\* range(start, stop, step), step >= 1
RECURSIVE Range(_, _, _)
Range(start, stop, step) ==
    IF start >= stop THEN <<>>
    ELSE <<start>> \o Range(start + step, stop, step)

\* the positions 1..Len(s), in order
Positions(s) == [i \in 1..Len(s) |-> i]

\* str.split(): the maximal runs of non-whitespace characters, in order
WordStarts(s) ==
    SelectSeq(Positions(s),
              LAMBDA i : s[i] \notin Whitespace /\ (i = 1 \/ s[i - 1] \in Whitespace))

WordEnds(s) ==
    SelectSeq(Positions(s),
              LAMBDA i : s[i] \notin Whitespace /\ (i = Len(s) \/ s[i + 1] \in Whitespace))

Split(s) ==
    LET starts == WordStarts(s)
        ends == WordEnds(s)
    IN  [k \in 1..Len(starts) |-> SubSeq(s, starts[k], ends[k])]

\* str.strip() is used only for its truth value: non-empty iff some
\* character is not whitespace
StripNonEmpty(s) == {i \in 1..Len(s) : s[i] \notin Whitespace} # {}

\* sep.join(parts)
RECURSIVE Join(_, _)
Join(sep, parts) ==
    IF parts = <<>> THEN <<>>
    ELSE IF Len(parts) = 1 THEN parts[1]
    ELSE Join(sep, SubSeq(parts, 1, Len(parts) \div 2)) \o sep
         \o Join(sep, SubSeq(parts, Len(parts) \div 2 + 1, Len(parts)))

\* s.split(ch)[0]: the text before the first ch, all of s when there is none
BeforeFirst(s, ch) ==
    LET hits == SelectSeq(Positions(s), LAMBDA i : s[i] = ch)
    IN  IF hits = <<>> THEN s ELSE SubSeq(s, 1, hits[1] - 1)

-----------------------------------------------------------------------------
(* chunk_text                                                              *)

ChunkTextDropTail(txt, size) ==
    LET words == Split(txt)
        starts == Range(0, Len(words) - size + 1, size)
    IN  [k \in 1..Len(starts) |->
            Join(<<" ">>, Slice(words, starts[k], starts[k] + size))]

ChunkText(txt, size) ==
    LET words == Split(txt)
        starts == Range(0, Len(words), size)
    IN  [k \in 1..Len(starts) |->
            Join(<<" ">>, Slice(words, starts[k], starts[k] + size))]

-----------------------------------------------------------------------------
(* get_relevant_chunks                                                     *)

\* Tensor.squeeze(): every dimension of size 1 is removed from the shape
Squeeze(shape) == SelectSeq(shape, LAMBDA d : d # 1)

\* shape of util.pytorch_cos_sim(chunk_embeddings, persona_embedding):
\* one row per chunk, one column for the single query vector
CosSimShape(n) == <<n, 1>>

\* The orders of the index set S in which argsort may list it: scores never
\* increase along the order; argsort is called without stable=True, so the
\* order among equal scores is whatever the sort routine leaves.
RECURSIVE OrdersAsc(_, _)
OrdersAsc(S, sims) ==
    IF S = {} THEN {<<>>}
    ELSE UNION { { <<i>> \o r : r \in OrdersAsc(S \ {i}, sims) } :
                 i \in {j \in S : \A m \in S : sims[j] <= sims[m]} }

RECURSIVE OrdersDesc(_, _)
OrdersDesc(S, sims) ==
    IF S = {} THEN {<<>>}
    ELSE UNION { { <<i>> \o r : r \in OrdersDesc(S \ {i}, sims) } :
                 i \in {j \in S : \A m \in S : sims[j] >= sims[m]} }

ArgsortAscending(sims) == OrdersAsc(DOMAIN sims, sims)

\* similarities.argsort(descending=True): the set of results it may give,
\* as 1-based positions
Argsort(sims) == OrdersDesc(DOMAIN sims, sims)

\* the list comprehension of line 37 over top_indices
RankedOf(chunks, sims, top_indices) ==
    [j \in 1..Len(top_indices) |->
        [idx     |-> top_indices[j] - 1,
         content |-> chunks[top_indices[j]],
         score   |-> sims[top_indices[j]]]]

\* get_relevant_chunks(chunks, persona_embedding, top_k): the set of lists
\* it may return, sims being the similarity of each chunk to the query
GetRelevantChunks(chunks, sims, k) ==
    IF Len(chunks) = 0 THEN {<<>>}
    ELSE LET shape0 == CosSimShape(Len(chunks))
             shape  == IF Len(shape0) > 1 THEN Squeeze(shape0) ELSE shape0
         IN  IF Len(shape) = 0 THEN {<<>>}
             ELSE { RankedOf(chunks, sims, Slice(p, 0, k)) : p \in Argsort(sims) }

-----------------------------------------------------------------------------
(* Bounds and input sets of the stand-alone calls                          *)

MaxTextLen == 6
MaxChunkSize == 3
MaxChunks == 4
MaxTopK == 3

TextAlphabet == {" ", "\n", "a", "b"}
ChunkTexts == {<<"a">>, <<"b", " ", "a">>}
\* cosine similarities in units of 10^-5
ScoreVals == {-5002, 12344, 12346}

SeqsUpTo(S, n) == UNION {[1..m -> S] : m \in 0..n}

-----------------------------------------------------------------------------
(* Program constants                                                       *)

DefaultChunkSize == 50      \* chunk_text(text, chunk_size=50)
DefaultTopK == 5            \* get_relevant_chunks(..., top_k=5)
TitleLen == 60              \* [:60]
RequiredKeys == <<"persona", "job", "documents">>

-----------------------------------------------------------------------------
(* The files the batch runs on                                             *)

\* n copies of word w joined by single spaces
Words(w, n) == Join(<<" ">>, [i \in 1..n |-> w])

\* a text block as page.get_text("blocks") gives it: (x0, y0, x1, y1, text,
\* block_no, block_type); Python's block[4] is position 5 here
Block(t) == <<0, 0, 0, 0, t>>

PageParis ==
    << Block(<<"P", "a", "r", "i", "s", " ", "i", "s", " ", "b", "e", "a", "u", "t", "i", "f", "u", "l", ".", "\n">>),
       Block(<<" ", "\n">>),
       Block(<<"V", "i", "s", "i", "t", " ", "t", "h", "e", " ", "L", "o", "u", "v", "r", "e", ".", "\n">>) >>
PageBlank == << Block(<<" ">>), Block(<<"\n", "\t">>) >>
PageNoBlocks == << >>
\* 100 equal words: two chunks with the same text
PageTwo == << Block(Words(<<"a">>, 60) \o <<"\n">>), Block(Words(<<"a">>, 40)) >>
\* 120 words: a chunk opening with a sentence, a plain chunk, a short chunk
PageThree ==
    << Block(<<"T", ".", " ">> \o Words(<<"b">>, 49) \o <<"\n">>),
       Block(Words(<<"a">>, 50) \o <<"\n">>),
       Block(Words(<<"c">>, 20)) >>

\* 251 words: five full chunks and a one-word sixth, one more than top_k
PageSix ==
    << Block(Words(<<"d">>, 50) \o <<" ">> \o Words(<<"e">>, 50) \o <<"\n">>),
       Block(Words(<<"f">>, 50) \o <<"\n">> \o Words(<<"g">>, 50) \o <<"\n">>),
       Block(Words(<<"h">>, 50) \o <<" ", "i">>) >>

\* the PDFs directory: file name -> extract_text_by_page(file)
PDFs ==
    [f \in {"A.pdf", "B.pdf"} |->
        IF f = "A.pdf" THEN <<PageParis, PageBlank, PageTwo>>
        ELSE <<PageNoBlocks, PageThree, PageSix>>]

\* os.path.exists(os.path.join(pdf_dir, doc_file))
PathExists(doc_file) == doc_file \in DOMAIN PDFs

\* an entry of config["documents"]: a str, or a dict that may hold "filename"
StrDoc(name) == [isstr |-> TRUE, keys |-> {}, filename |-> name]
DictDoc(name) == [isstr |-> FALSE, keys |-> {"filename"}, filename |-> name]
DictNoName == [isstr |-> FALSE, keys |-> {}, filename |-> ""]

DocLists ==
    { << StrDoc("A.pdf"), StrDoc("M.pdf"), DictDoc("B.pdf") >>,
      << DictDoc("M.pdf"), DictNoName, StrDoc(""), StrDoc("B.pdf") >> }

Cfg(keys, docs) ==
    [keys |-> keys, persona |-> "Travel Planner", job |-> "Plan a trip",
     documents |-> docs]

AllKeys == {RequiredKeys[i] : i \in DOMAIN RequiredKeys}

\* what challenge1b_input.json of a collection may hold
Configs ==
    { Cfg(k, << >>) : k \in (SUBSET AllKeys) \ {AllKeys} }
    \cup { Cfg(AllKeys, << >>) }
    \cup { Cfg(AllKeys \cup {"challenge_info"}, d) : d \in DocLists }

\* the directory entries glob may yield: the name after "Collection", as
\* code points, and whether the entry is a directory
Entries ==
    { [name |-> <<49>>, is_dir |-> TRUE],         \* Collection1
      [name |-> <<49, 48>>, is_dir |-> FALSE],    \* Collection10
      [name |-> <<50>>, is_dir |-> TRUE] }        \* Collection2

-----------------------------------------------------------------------------
(* clean_blocks, and the page pipeline                                     *)

\* clean_blocks(blocks)
CleanBlocks(blocks) ==
    Join(<<" ">>,
         [i \in 1..Len(SelectSeq(blocks, LAMBDA b : StripNonEmpty(b[5]))) |->
             SelectSeq(blocks, LAMBDA b : StripNonEmpty(b[5]))[i][5]])

\* the chunks of one page, as process_collection computes them (lines 84-88)
PageChunks(blocks) == ChunkText(CleanBlocks(blocks), DefaultChunkSize)

\* every chunk text the files can give rise to
ChunkUniverse ==
    UNION { UNION { { PageChunks(PDFs[f][p])[k] : k \in 1..Len(PageChunks(PDFs[f][p])) } :
                    p \in 1..Len(PDFs[f]) } :
            f \in DOMAIN PDFs }

\* model.encode(chunks) followed by pytorch_cos_sim against the query: the
\* score of each chunk, the embedder giving equal texts equal vectors
Similarities(chunks, emb) == [i \in 1..Len(chunks) |-> emb[chunks[i]]]

\* round(score, 4), in units of 10^-4 (no score of the model lies on a half)
Round4(score) == (score + 5) \div 10

\* content.split(".")[0][:60]
SectionTitle(content) == Slice(BeforeFirst(content, "."), 0, TitleLen)

\* the dict appended to output["extracted_sections"]
ExtractedSection(doc_file, page_number, rc) ==
    [document |-> doc_file, page_number |-> page_number,
     section_title |-> SectionTitle(rc.content),
     importance_rank |-> Round4(rc.score)]

SubsectionAnalysisZeroBased(doc_file, page_number, rc) ==
    [document |-> doc_file, page_number |-> page_number - 1,
     refined_text |-> rc.content]

\* the dict appended to output["subsection_analysis"]
SubsectionAnalysis(doc_file, page_number, rc) ==
    [document |-> doc_file, page_number |-> page_number,
     refined_text |-> rc.content]

EmitRowsPrepend(out, doc_file, page_number, top_chunks) ==
    [out EXCEPT
        !.extracted_sections =
            [j \in 1..Len(top_chunks) |->
                ExtractedSection(doc_file, page_number, top_chunks[j])] \o @,
        !.subsection_analysis =
            [j \in 1..Len(top_chunks) |->
                SubsectionAnalysis(doc_file, page_number, top_chunks[j])] \o @]

\* the for loop of lines 96-108 over top_chunks, applied to the output dict
EmitRows(out, doc_file, page_number, top_chunks) ==
    [out EXCEPT
        !.extracted_sections = @ \o
            [j \in 1..Len(top_chunks) |->
                ExtractedSection(doc_file, page_number, top_chunks[j])],
        !.subsection_analysis = @ \o
            [j \in 1..Len(top_chunks) |->
                SubsectionAnalysis(doc_file, page_number, top_chunks[j])]]

MissingKeysFirst(cfg) ==
    SubSeq(SelectSeq(RequiredKeys, LAMBDA key : key \notin cfg.keys), 1, 1)

\* validate_input: the required keys the config lacks, in required order
MissingKeys(cfg) == SelectSeq(RequiredKeys, LAMBDA key : key \notin cfg.keys)

\* lines 58-59: each entry resolved to a file name, empty names dropped
ResolveDocuments(raw_docs) ==
    SelectSeq(
        [i \in 1..Len(raw_docs) |->
            IF raw_docs[i].isstr THEN raw_docs[i].filename
            ELSE IF "filename" \in raw_docs[i].keys THEN raw_docs[i].filename
            ELSE ""],
        LAMBDA doc : doc # "")

-----------------------------------------------------------------------------
(* main: sorted(base_dir.glob("Collection*/"))                             *)

\* a < b for two names, compared as strings
RECURSIVE LexLess(_, _)
LexLess(a, b) ==
    IF b = <<>> THEN FALSE
    ELSE IF a = <<>> THEN TRUE
    ELSE IF a[1] # b[1] THEN a[1] < b[1]
    ELSE LexLess(Tail(a), Tail(b))

RECURSIVE Sorted(_)
Sorted(S) ==
    IF S = {} THEN <<>>
    ELSE LET least == CHOOSE e \in S : \A o \in S \ {e} : LexLess(e.name, o.name)
         IN  <<least>> \o Sorted(S \ {least})

Names == {e.name : e \in Entries}

-----------------------------------------------------------------------------
(* State of main and process_collection                                    *)

NoConfig == Cfg({}, << >>)
NoEmbedding == [t \in {} |-> 0]
NoOutput ==
    [metadata |-> [documents |-> << >>, persona |-> "", job |-> "", timestamp |-> 0],
     extracted_sections |-> << >>,
     subsection_analysis |-> << >>]
NoRun ==
    [visits |-> 0, status |-> "none", failed_at |-> "", loaded |-> FALSE, keys |-> {},
     embedded |-> FALSE, opened |-> 0, paged |-> 0, writes |-> 0]

\* the chunk texts of PageParis, PageTwo and PageThree
ChunkParis == PageChunks(PageParis)[1]
ChunkA == Words(<<"a">>, 50)
ChunkT == PageChunks(PageThree)[1]
ChunkC == Words(<<"c">>, 20)

\* the scores a query embedding may give the chunks, in units of 10^-5.
\* The first ranks the chunks of PageThree last to first and, on PageSix,
\* ties the third and fifth chunk for the last place top_k leaves; the
\* second ties two chunks of PageThree and scores PageSix in rising order.
Embeddings ==
    { [t \in ChunkUniverse |->
          CASE t = ChunkT -> -5002
            [] t = ChunkA -> 12344
            [] t = Words(<<"d">>, 50) -> 20001
            [] t = Words(<<"e">>, 50) -> 30002
            [] t = Words(<<"f">>, 50) -> 10003
            [] t = Words(<<"g">>, 50) -> 40004
            [] t = Words(<<"h">>, 50) -> 10003
            [] t = <<"i">> -> 50001
            [] OTHER -> 12346],
      [t \in ChunkUniverse |->
          CASE t = ChunkC -> 12346
            [] t = Words(<<"d">>, 50) -> -30001
            [] t = Words(<<"e">>, 50) -> -20002
            [] t = Words(<<"f">>, 50) -> -10003
            [] t = Words(<<"g">>, 50) -> 10004
            [] t = Words(<<"h">>, 50) -> 20002
            [] t = <<"i">> -> 30001
            [] OTHER -> 12344] }

\* the collection process_collection is running on
Cur == listing[pos].name

PureIdle ==
    /\ text = << >> /\ chunk_size = 1 /\ chunked = << >> /\ cpc = "idle"
    /\ rchunks = << >> /\ rsims = << >> /\ top_k = 1 /\ ranked = << >>
    /\ rpc = "idle"

MainIdle ==
    /\ listing = << >> /\ pos = 0 /\ pc = "idle"
    /\ config = NoConfig /\ documents = << >>
    /\ persona_embedding = NoEmbedding /\ output = NoOutput
    /\ doc_i = 0 /\ pages = << >> /\ page_i = 0
    /\ files = [c \in Names |-> << >>]
    /\ console = << >> /\ clock = 0
    /\ runs = [c \in Names |-> NoRun]
    /\ emitted = << >>

Init ==
    /\ PureIdle
    /\ listing \in {Sorted(S) : S \in SUBSET Entries}
    /\ pos = 0 /\ pc = "main"
    /\ config = NoConfig /\ documents = << >>
    /\ persona_embedding = NoEmbedding /\ output = NoOutput
    /\ doc_i = 0 /\ pages = << >> /\ page_i = 0
    /\ files = [c \in Names |-> << >>]
    /\ console = << >> /\ clock = 0
    /\ runs = [c \in Names |-> NoRun]
    /\ emitted = << >>

\* the locals of process_collection are gone when it returns or raises
Unwind ==
    /\ config' = NoConfig /\ documents' = << >>
    /\ persona_embedding' = NoEmbedding /\ output' = NoOutput
    /\ doc_i' = 0 /\ pages' = << >> /\ page_i' = 0
    /\ emitted' = << >>

Say(kind, detail) == Append(console, [kind |-> kind, collection |-> Cur, detail |-> detail])

HandleAbort(kind, detail) ==
    /\ console' = Say(kind, detail)
    /\ pc' = "done"

\* lines 121-124: either except clause prints and the for loop goes on
Handle(kind, detail) ==
    /\ console' = Say(kind, detail)
    /\ pc' = "main"

\* an exception leaves process_collection and reaches main's try
Raise(kind, detail) ==
    /\ Handle(kind, detail)
    /\ Unwind
    /\ runs' = [runs EXCEPT ![Cur].status = kind, ![Cur].failed_at = pc]
    /\ UNCHANGED <<listing, pos, files, clock, pureVars>>

-----------------------------------------------------------------------------
(* main                                                                    *)

\* one turn of the for loop of line 117
MainNext ==
    /\ pc = "main" /\ pos < Len(listing)
    /\ pos' = pos + 1
    /\ IF listing[pos + 1].is_dir
       THEN /\ pc' = "load"
            /\ runs' = [runs EXCEPT ![listing[pos + 1].name].visits = @ + 1,
                                    ![listing[pos + 1].name].status = "running"]
       ELSE /\ pc' = "main"
            /\ UNCHANGED runs
    /\ UNCHANGED <<listing, config, documents, persona_embedding, output, doc_i,
                   pages, page_i, files, console, clock, emitted, pureVars>>

\* the for loop is exhausted
MainExit ==
    /\ pc = "main" /\ pos = Len(listing)
    /\ pc' = "done"
    /\ UNCHANGED <<listing, pos, config, documents, persona_embedding, output,
                   doc_i, pages, page_i, files, console, clock, runs, emitted,
                   pureVars>>

-----------------------------------------------------------------------------
(* process_collection                                                      *)

\* lines 50-51
Load ==
    /\ pc = "load"
    /\ pc' = "validate"
    /\ \E cfg \in Configs :
        /\ config' = cfg
        /\ runs' = [runs EXCEPT ![Cur].loaded = TRUE, ![Cur].keys = cfg.keys]
    /\ UNCHANGED <<listing, pos, documents, persona_embedding, output, doc_i,
                   pages, page_i, files, console, clock, emitted, pureVars>>

\* lines 50-51: the input file is missing or is not JSON
LoadFail ==
    /\ pc = "load"
    /\ Raise("Exception", << >>)

\* lines 53-59 with every required key present
Validate ==
    /\ pc = "validate"
    /\ MissingKeys(config) = << >>
    /\ documents' = ResolveDocuments(config.documents)
    /\ pc' = "embed"
    /\ UNCHANGED <<listing, pos, config, runs, persona_embedding, output, doc_i,
                   pages, page_i, files, console, clock, emitted, pureVars>>

\* line 53 raising KeyError
ValidateFail ==
    /\ pc = "validate"
    /\ MissingKeys(config) # << >>
    /\ Handle("KeyError", MissingKeys(config))
    /\ Unwind
    /\ runs' = [runs EXCEPT ![Cur].status = "KeyError", ![Cur].failed_at = pc]
    /\ UNCHANGED <<listing, pos, files, clock, pureVars>>

\* lines 61-73
EmbedQuery ==
    /\ pc = "embed"
    /\ \E emb \in Embeddings : persona_embedding' = emb
    /\ output' =
        [metadata |-> [documents |-> documents, persona |-> config.persona,
                       job |-> config.job, timestamp |-> clock],
         extracted_sections |-> << >>,
         subsection_analysis |-> << >>]
    /\ clock' = clock + 1
    /\ doc_i' = 1
    /\ pc' = "docs"
    /\ runs' = [runs EXCEPT ![Cur].embedded = TRUE]
    /\ UNCHANGED <<listing, pos, config, documents, pages, page_i, files,
                   console, emitted, pureVars>>

\* line 62: model.encode raises
EmbedFail ==
    /\ pc = "embed"
    /\ Raise("Exception", << >>)

SkipMissingBreak ==
    /\ pc = "docs" /\ doc_i <= Len(documents)
    /\ ~PathExists(documents[doc_i])
    /\ console' = Say("Warning", <<documents[doc_i]>>)
    /\ pc' = "write"
    /\ UNCHANGED <<listing, pos, config, documents, persona_embedding, output,
                   doc_i, pages, page_i, files, clock, runs, emitted, pureVars>>

\* lines 76-79: the file is not there
SkipMissing ==
    /\ pc = "docs" /\ doc_i <= Len(documents)
    /\ ~PathExists(documents[doc_i])
    /\ console' = Say("Warning", <<documents[doc_i]>>)
    /\ doc_i' = doc_i + 1
    /\ UNCHANGED <<listing, pos, pc, config, documents, persona_embedding, output,
                   pages, page_i, files, clock, runs, emitted, pureVars>>

\* lines 76-81: the file is there and is read
OpenDoc ==
    /\ pc = "docs" /\ doc_i <= Len(documents)
    /\ PathExists(documents[doc_i])
    /\ pages' = PDFs[documents[doc_i]]
    /\ page_i' = 0
    /\ pc' = "pages"
    /\ runs' = [runs EXCEPT ![Cur].opened = @ + 1]
    /\ UNCHANGED <<listing, pos, config, documents, persona_embedding, output,
                   doc_i, files, console, clock, emitted, pureVars>>

\* line 81: fitz cannot read the file
ExtractFail ==
    /\ pc = "docs" /\ doc_i <= Len(documents)
    /\ PathExists(documents[doc_i])
    /\ Raise("Exception", << >>)

\* the for loop of line 75 is exhausted
DocsDone ==
    /\ pc = "docs" /\ doc_i > Len(documents)
    /\ pc' = "write"
    /\ UNCHANGED <<listing, pos, config, documents, persona_embedding, output,
                   doc_i, pages, page_i, files, console, clock, runs, emitted,
                   pureVars>>

\* lines 84-94: what get_relevant_chunks may give for a page, the empty list
\* too when the page is skipped before it is called
TopChunks(blocks, emb) ==
    IF ~StripNonEmpty(CleanBlocks(blocks)) THEN {<< >>}
    ELSE IF PageChunks(blocks) = << >> THEN {<< >>}
    ELSE GetRelevantChunks(PageChunks(blocks),
                           Similarities(PageChunks(blocks), emb), DefaultTopK)

\* where each row of a page's top_chunks came from
Origins(d, page_number, top_chunks) ==
    [j \in 1..Len(top_chunks) |->
        [doc_i |-> d, page_number |-> page_number,
         idx |-> top_chunks[j].idx, score |-> top_chunks[j].score]]

\* one turn of the for loop of line 83 (lines 84-108)
PageStep ==
    /\ pc = "pages" /\ page_i < Len(pages)
    /\ \E top_chunks \in TopChunks(pages[page_i + 1], persona_embedding) :
        /\ output' = EmitRows(output, documents[doc_i], page_i + 1, top_chunks)
        /\ emitted' = emitted \o Origins(doc_i, page_i + 1, top_chunks)
    /\ page_i' = page_i + 1
    /\ runs' = [runs EXCEPT ![Cur].paged = @ + 1]
    /\ UNCHANGED <<listing, pos, pc, config, documents, persona_embedding, doc_i,
                   pages, files, console, clock, pureVars>>

\* line 27: model.encode raises on the chunks of a page
RankFail ==
    /\ pc = "pages" /\ page_i < Len(pages)
    /\ StripNonEmpty(CleanBlocks(pages[page_i + 1]))
    /\ Raise("Exception", << >>)

PagesDoneFlush ==
    /\ pc = "pages" /\ page_i = Len(pages)
    /\ doc_i' = doc_i + 1
    /\ pages' = << >> /\ page_i' = 0
    /\ pc' = "docs"
    /\ files' = [files EXCEPT ![Cur] = <<output>>]
    /\ runs' = [runs EXCEPT ![Cur].writes = @ + 1]
    /\ UNCHANGED <<listing, pos, config, documents, persona_embedding, output,
                   console, clock, emitted, pureVars>>

\* the for loop of line 83 is exhausted
PagesDone ==
    /\ pc = "pages" /\ page_i = Len(pages)
    /\ doc_i' = doc_i + 1
    /\ pages' = << >> /\ page_i' = 0
    /\ pc' = "docs"
    /\ UNCHANGED <<listing, pos, config, documents, persona_embedding, output,
                   files, console, clock, runs, emitted, pureVars>>

\* lines 110-113
Write ==
    /\ pc = "write"
    /\ files' = [files EXCEPT ![Cur] = <<output>>]
    /\ console' = Say("Saved", << >>)
    /\ runs' = [runs EXCEPT ![Cur].status = "saved", ![Cur].writes = @ + 1]
    /\ pc' = "main"
    /\ Unwind
    /\ UNCHANGED <<listing, pos, clock, pureVars>>

\* line 110: the output file cannot be opened for writing
WriteFail ==
    /\ pc = "write"
    /\ Raise("Exception", << >>)

Next ==
    \/ MainNext \/ MainExit
    \/ Load \/ LoadFail
    \/ Validate \/ ValidateFail
    \/ EmbedQuery \/ EmbedFail
    \/ SkipMissing \/ OpenDoc \/ ExtractFail \/ DocsDone
    \/ PageStep \/ RankFail \/ PagesDone
    \/ Write \/ WriteFail

Spec == Init /\ [][Next]_vars

-----------------------------------------------------------------------------
(* chunk_text and get_relevant_chunks called on their own                  *)

InitChunk ==
    /\ MainIdle
    /\ rchunks = << >> /\ rsims = << >> /\ top_k = 1 /\ ranked = << >>
    /\ rpc = "idle"
    /\ text \in SeqsUpTo(TextAlphabet, MaxTextLen)
    /\ chunk_size \in 1..MaxChunkSize
    /\ chunked = << >>
    /\ cpc = "ready"

\* chunked = chunk_text(text, chunk_size)
CallChunkText ==
    /\ cpc = "ready"
    /\ chunked' = ChunkText(text, chunk_size)
    /\ cpc' = "done"
    /\ UNCHANGED <<text, chunk_size, rchunks, rsims, top_k, ranked, rpc, mainVars>>

NextChunk == CallChunkText

SpecChunk == InitChunk /\ [][NextChunk]_vars

InitRank ==
    /\ MainIdle
    /\ text = << >> /\ chunk_size = 1 /\ chunked = << >> /\ cpc = "idle"
    /\ rchunks \in SeqsUpTo(ChunkTexts, MaxChunks)
    /\ rsims \in [1..Len(rchunks) -> ScoreVals]
    /\ top_k \in 1..MaxTopK
    /\ ranked = << >>
    /\ rpc = "ready"

\* ranked = get_relevant_chunks(rchunks, persona_embedding, top_k)
CallGetRelevantChunks ==
    /\ rpc = "ready"
    /\ ranked' \in GetRelevantChunks(rchunks, rsims, top_k)
    /\ rpc' = "done"
    /\ UNCHANGED <<text, chunk_size, chunked, cpc, rchunks, rsims, top_k, mainVars>>

NextRank == CallGetRelevantChunks

SpecRank == InitRank /\ [][NextRank]_vars

-----------------------------------------------------------------------------
(* Properties of chunk_text (SpecChunk)                                    *)

\* the sequences of s concatenated in order
RECURSIVE Flatten(_)
Flatten(s) == IF s = << >> THEN << >> ELSE Head(s) \o Flatten(Tail(s))

\* ceil(a / b) for a >= 0, b >= 1
CeilDiv(a, b) == (a + b - 1) \div b

\* C8: chunk_text partitions the words of the text, in order, into
\* ceil(word_count / chunk_size) groups; every group but the last has exactly
\* chunk_size words, the last has between 1 and chunk_size, and the words of
\* the chunks read in order are the words of the text (no chunk at all for an
\* empty or whitespace-only text).
C8_ChunkTextPartitionsWords ==
    cpc = "done" =>
        LET words == Split(text)
            n == Len(chunked)
        IN  /\ n = CeilDiv(Len(words), chunk_size)
            /\ \A k \in 1..(n - 1) : Len(Split(chunked[k])) = chunk_size
            /\ n > 0 => Len(Split(chunked[n])) \in 1..chunk_size
            /\ Flatten([k \in 1..n |-> Split(chunked[k])]) = words
            /\ (~StripNonEmpty(text)) => chunked = << >>

\* a text with leading and repeated whitespace cut into a full chunk and a
\* shorter last one
C8_Witness ==
    /\ cpc = "done"
    /\ chunk_size = 2
    /\ text = <<" ", "a", "\n", "b", " ", "a">>
    /\ chunked = << <<"a", " ", "b">>, <<"a">> >>

-----------------------------------------------------------------------------
(* Properties of get_relevant_chunks (SpecRank)                            *)

\* the chunk indices (0-based) of a ranked list
RankedIdx(r) == {r[a].idx : a \in 1..Len(r)}

\* C9: for a non-empty chunk list and top_k >= 1 the result has at most top_k
\* entries with pairwise distinct indices, each carrying the text and score
\* of the chunk at its index, in non-increasing score, and no chunk left out
\* scores strictly higher than a returned one.
C9_RankedTopK ==
    (rpc = "done" /\ Len(rchunks) >= 1) =>
        /\ Len(ranked) <= top_k
        /\ \A a, b \in 1..Len(ranked) : a # b => ranked[a].idx # ranked[b].idx
        /\ \A a \in 1..Len(ranked) :
            /\ ranked[a].idx \in 0..(Len(rchunks) - 1)
            /\ ranked[a].content = rchunks[ranked[a].idx + 1]
            /\ ranked[a].score = rsims[ranked[a].idx + 1]
        /\ \A a, b \in 1..Len(ranked) : a < b => ranked[a].score >= ranked[b].score
        /\ \A i \in 1..Len(rchunks) : \A a \in 1..Len(ranked) :
            (i - 1) \notin RankedIdx(ranked) => rsims[i] <= ranked[a].score

\* a call that truncates: more chunks than top_k, top_k of them returned, and
\* a chunk left out that scores strictly lower than a returned one
C9_Witness ==
    /\ rpc = "done"
    /\ Len(rchunks) > top_k
    /\ top_k >= 2
    /\ Len(ranked) = top_k
    /\ ranked[1].score > ranked[2].score
    /\ \E i \in 1..Len(rchunks) :
        (i - 1) \notin RankedIdx(ranked) /\ rsims[i] < ranked[top_k].score

\* C3: of two chunks with equal scores the one with the smaller index is
\* ranked first, and is the one kept when truncation separates them.
C3_TiesByAscendingIndex ==
    rpc = "done" =>
        /\ \A a, b \in 1..Len(ranked) :
            (a < b /\ ranked[a].score = ranked[b].score)
                => ranked[a].idx < ranked[b].idx
        /\ \A i \in 1..Len(rchunks) : \A a \in 1..Len(ranked) :
            ((i - 1) \notin RankedIdx(ranked) /\ rsims[i] = ranked[a].score)
                => ranked[a].idx < i - 1

-----------------------------------------------------------------------------
(* Properties of process_collection and main (Spec)                        *)

\* the page numbers the files have
PageNumbers == UNION {1..Len(PDFs[f]) : f \in DOMAIN PDFs}

\* page p of document d of the current run has been through lines 84-108
PageHandled(d, p) ==
    /\ pc \in {"docs", "pages", "write"}
    /\ d \in 1..Len(documents) /\ PathExists(documents[d])
    /\ p \in 1..Len(PDFs[documents[d]])
    /\ \/ d < doc_i
       \/ d = doc_i /\ pc = "pages" /\ p <= page_i

\* the positions of the output rows that came from page p of document d
RowsFrom(d, p) ==
    {i \in 1..Len(emitted) : emitted[i].doc_i = d /\ emitted[i].page_number = p}

\* C1: a page whose text gives exactly one chunk contributes exactly one row
\* to extracted_sections and one to subsection_analysis: chunk index 0, the
\* full chunk text, its score.
C1_SingleChunkPageGivesOneRow ==
    \A d \in 1..Len(documents) : \A p \in PageNumbers :
        (PageHandled(d, p) /\ Len(PageChunks(PDFs[documents[d]][p])) = 1) =>
            /\ Cardinality(RowsFrom(d, p)) = 1
            /\ \A i \in RowsFrom(d, p) :
                /\ emitted[i].idx = 0
                /\ i <= Len(output.extracted_sections)
                /\ i <= Len(output.subsection_analysis)
                /\ output.subsection_analysis[i].refined_text
                     = PageChunks(PDFs[documents[d]][p])[1]
                /\ output.extracted_sections[i].importance_rank
                     = Round4(persona_embedding[PageChunks(PDFs[documents[d]][p])[1]])

PairedLists(out) ==
    /\ Len(out.extracted_sections) = Len(out.subsection_analysis)
    /\ \A i \in 1..Len(out.extracted_sections) :
        /\ out.extracted_sections[i].document = out.subsection_analysis[i].document
        /\ out.extracted_sections[i].page_number
             = out.subsection_analysis[i].page_number

\* C4: in the output being built and in every output file, extracted_sections
\* and subsection_analysis have the same length and agree on document and
\* page_number position by position; every ranked chunk kept gives one entry
\* of each.
C4_ListsPaired ==
    /\ PairedLists(output)
    /\ Len(emitted) = Len(output.extracted_sections)
    /\ Len(emitted) = Len(output.subsection_analysis)
    /\ \A c \in Names : files[c] # << >> => PairedLists(files[c][1])

\* a written file with rows from two documents, one page of which had more
\* chunks than top_k and gave exactly top_k rows
C4_Witness ==
    \E c \in Names :
        /\ files[c] # << >>
        /\ Len(files[c][1].extracted_sections) >= 4
        /\ \E i \in 1..Len(files[c][1].extracted_sections) :
            /\ Len(PageChunks(PDFs[files[c][1].extracted_sections[i].document]
                                  [files[c][1].extracted_sections[i].page_number]))
                 > DefaultTopK
            /\ Cardinality({j \in 1..Len(files[c][1].extracted_sections) :
                    /\ files[c][1].extracted_sections[j].document
                         = files[c][1].extracted_sections[i].document
                    /\ files[c][1].extracted_sections[j].page_number
                         = files[c][1].extracted_sections[i].page_number})
                 = DefaultTopK
        /\ \E i, j \in 1..Len(files[c][1].subsection_analysis) :
            files[c][1].subsection_analysis[i].document
              # files[c][1].subsection_analysis[j].document

\* the required keys a loaded config lacks
Lacking(c) == AllKeys \ runs[c].keys

KeyErrorsFor(c) ==
    SelectSeq(console, LAMBDA m : m.kind = "KeyError" /\ m.collection = c)

\* C5: a config lacking required keys makes process_collection fail with one
\* KeyError naming exactly the missing keys, before the query is embedded or
\* a document opened, no output file is written, and main goes on to the
\* remaining collections.
C5_MissingKeysReported ==
    \A c \in Names :
        (/\ runs[c].loaded /\ Lacking(c) # {}
         /\ ~(pc = "validate" /\ Cur = c)) =>
            /\ runs[c].status = "KeyError"
            /\ Len(KeyErrorsFor(c)) = 1
            /\ {KeyErrorsFor(c)[1].detail[i] : i \in 1..Len(KeyErrorsFor(c)[1].detail)}
                 = Lacking(c)
            /\ Len(KeyErrorsFor(c)[1].detail) = Cardinality(Lacking(c))
            /\ ~runs[c].embedded
            /\ runs[c].opened = 0
            /\ runs[c].writes = 0
            /\ files[c] = << >>
            /\ pc = "done" => pos = Len(listing)

\* the first collection lacked two keys, the second was saved after it
C5_Witness ==
    /\ pc = "done"
    /\ Len(listing) = 3
    /\ Cardinality(Lacking(listing[1].name)) = 2
    /\ runs[listing[1].name].status = "KeyError"
    /\ runs[listing[3].name].status = "saved"

\* the rows of the output that came from document d of the list
RowsOfDoc(d) ==
    LET at == SelectSeq(Positions(emitted), LAMBDA i : emitted[i].doc_i = d)
    IN  [extracted_sections |->
            [k \in 1..Len(at) |-> output.extracted_sections[at[k]]],
         subsection_analysis |->
            [k \in 1..Len(at) |-> output.subsection_analysis[at[k]]]]

NoRows == [extracted_sections |-> << >>, subsection_analysis |-> << >>]

\* the rows a document gives when it is the only one processed, one result
\* per way its pages may be ranked
RECURSIVE Alone(_, _, _, _)
Alone(doc_file, emb, p, rows) ==
    IF p > Len(PDFs[doc_file]) THEN {rows}
    ELSE UNION { Alone(doc_file, emb, p + 1, EmitRows(rows, doc_file, p, top)) :
                 top \in TopChunks(PDFs[doc_file][p], emb) }

Warnings(c) ==
    SelectSeq(console, LAMBDA m : m.kind = "Warning" /\ m.collection = c)

\* C6: once the document loop is over, a listed document whose file is
\* missing has contributed no row and raised no error (one warning each), and
\* every other document has contributed the rows it gives when processed
\* alone.
C6_MissingDocumentSkipped ==
    pc = "write" =>
        /\ runs[Cur].status = "running"
        /\ Len(Warnings(Cur))
             = Cardinality({d \in 1..Len(documents) : ~PathExists(documents[d])})
        /\ Len(emitted) = Len(output.extracted_sections)
        /\ Len(emitted) = Len(output.subsection_analysis)
        /\ \A d \in 1..Len(documents) :
            IF PathExists(documents[d])
            THEN RowsOfDoc(d) \in Alone(documents[d], persona_embedding, 1, NoRows)
            ELSE RowsOfDoc(d) = NoRows

\* a missing document between two documents that both contributed rows
C6_Witness ==
    /\ pc = "write"
    /\ \E d1, d2, d3 \in 1..Len(documents) :
        /\ d1 < d2 /\ d2 < d3
        /\ ~PathExists(documents[d2])
        /\ RowsOfDoc(d1) # NoRows
        /\ RowsOfDoc(d3) # NoRows

\* C7: the rows appear in document order, then ascending page number, then
\* non-increasing similarity within a page, in both lists.
C7_RowsInDiscoveryOrder ==
    /\ Len(emitted) = Len(output.extracted_sections)
    /\ Len(emitted) = Len(output.subsection_analysis)
    /\ \A i \in 1..Len(emitted) :
        /\ emitted[i].doc_i \in 1..Len(documents)
        /\ output.extracted_sections[i].document = documents[emitted[i].doc_i]
        /\ output.subsection_analysis[i].document = documents[emitted[i].doc_i]
        /\ output.extracted_sections[i].page_number = emitted[i].page_number
        /\ output.subsection_analysis[i].page_number = emitted[i].page_number
        /\ output.extracted_sections[i].importance_rank = Round4(emitted[i].score)
    /\ \A i, j \in 1..Len(emitted) :
        i < j =>
            \/ emitted[i].doc_i < emitted[j].doc_i
            \/ /\ emitted[i].doc_i = emitted[j].doc_i
               /\ emitted[i].page_number < emitted[j].page_number
            \/ /\ emitted[i].doc_i = emitted[j].doc_i
               /\ emitted[i].page_number = emitted[j].page_number
               /\ emitted[i].score >= emitted[j].score
               /\ output.extracted_sections[i].importance_rank
                    >= output.extracted_sections[j].importance_rank

\* all documents done, rows from two documents, and a page whose rank order
\* is not its chunk order
C7_Witness ==
    /\ pc = "write"
    /\ \E i, j \in 1..Len(emitted) : emitted[i].doc_i < emitted[j].doc_i
    /\ \E i \in 1..(Len(emitted) - 1) :
        /\ emitted[i].doc_i = emitted[i + 1].doc_i
        /\ emitted[i].page_number = emitted[i + 1].page_number
        /\ emitted[i].score > emitted[i + 1].score
        /\ emitted[i].idx > emitted[i + 1].idx

Finished(c) == runs[c].status \in {"saved", "KeyError", "Exception"}

\* C2: when main returns, every directory of the listing has been processed
\* exactly once, whatever failed and at whatever step, and each one in which
\* nothing was raised has its output file; a step changes no output file but
\* that of the collection being written.
C2_BatchIsolatesFailures ==
    /\ [](pc = "done" =>
            /\ pos = Len(listing)
            /\ \A k \in 1..Len(listing) :
                listing[k].is_dir =>
                    /\ runs[listing[k].name].visits = 1
                    /\ Finished(listing[k].name)
                    /\ runs[listing[k].name].failed_at = ""
                         => files[listing[k].name] # << >>)
    /\ [][\A c \in Names :
            files'[c] # files[c] => (pc = "write" /\ Cur = c)]_vars

\* main has returned, the first collection failed and the one after it was
\* saved with rows
C2_Witness ==
    /\ pc = "done"
    /\ Len(listing) = 3
    /\ runs[listing[1].name].status = "Exception"
    /\ runs[listing[1].name].opened >= 1
    /\ files[listing[3].name] # << >>
    /\ Len(files[listing[3].name][1].extracted_sections) >= 2

\* the pages of the files the resolved list names
PagesListed(docs) ==
    Len(Flatten([d \in 1..Len(docs) |->
                    IF PathExists(docs[d]) THEN PDFs[docs[d]] ELSE << >>]))

\* C10: the output file of a collection is written at most once per run, in
\* the step after the document loop has handled every listed document and
\* every page, and holds the output as it stands then; a run that raised at
\* an earlier step (load, validation, query embedding, extraction, ranking)
\* has written nothing.
C10_OutputWrittenOnceAtEnd ==
    /\ [][\A c \in Names :
            (files'[c] # files[c] \/ runs'[c].writes # runs[c].writes) =>
                /\ pc = "write" /\ Cur = c
                /\ doc_i = Len(documents) + 1
                /\ runs[c].paged = PagesListed(documents)
                /\ runs[c].status = "running"
                /\ runs[c].writes = 0 /\ runs'[c].writes = 1
                /\ files'[c] = <<output>>]_vars
    /\ [](\A c \in Names :
            runs[c].failed_at \in {"load", "validate", "embed", "docs", "pages"} =>
                (files[c] = << >> /\ runs[c].writes = 0))

\* one collection raised after rows had been gathered and has no file, the
\* other has its file
C10_Witness ==
    \E c1, c2 \in Names :
        /\ runs[c1].failed_at = "pages" /\ runs[c1].paged >= 3
        /\ files[c1] = << >>
        /\ files[c2] # << >> /\ Len(files[c2][1].extracted_sections) >= 2

====
